---- MODULE Spec2Model ----
(***************************************************************************)
(* Model of the production-logistics tools of skills/data.py and           *)
(* skills/communications.py.  The three external services (the Airtable    *)
(* base with its Assets and Allocations tables, the Notion schedule        *)
(* database, the Slack workspace) are the state; every tool is one action  *)
(* that performs its external calls in the order of the code, each call    *)
(* either answering or raising.  Text is a sequence of one-character       *)
(* strings, a date is a day number, an Optional value is None or Some(v).  *)
(***************************************************************************)
EXTENDS Integers, Sequences, FiniteSets, TLC

VARIABLES assets, allocations, pages, messages, today, hash_seed, placed, callers, ret, calls

vars == <<assets, allocations, pages, messages, today, hash_seed, placed, callers, ret, calls>>

\* ------------------------------------------------------------------------
\* Bounds of the model
\* ------------------------------------------------------------------------
MaxNewAllocations == 2

MaxMessages == 2

\* the days on which equipment is reserved
ShootDates == {1, 2}

MaxDay == 3

MaxQuantity == 2

MaxDaysAhead == 2

MaxResults == 2

\* number of results the schedule database returns for one query request
PageSize == 3

\* ------------------------------------------------------------------------
\* Optional values, dictionaries, text
\* ------------------------------------------------------------------------
None == [some |-> FALSE]

Some(v) == [some |-> TRUE, val |-> v]

\* d.get(key, default)
Get(d, key, default) == IF key \in DOMAIN d THEN d[key] ELSE default

RECURSIVE LStrip(_)
LStrip(s) == IF s # <<>> /\ Head(s) = " " THEN LStrip(Tail(s)) ELSE s

RECURSIVE RStrip(_)
RStrip(s) ==
    IF s # <<>> /\ s[Len(s)] = " " THEN RStrip(SubSeq(s, 1, Len(s) - 1)) ELSE s

\* str.strip()
Strip(s) == RStrip(LStrip(s))

\* Airtable's LOWER() on the letters of the model
LowerChar(c) == CASE c = "A" -> "a" [] c = "B" -> "b" [] OTHER -> c

Lower(s) == [i \in 1..Len(s) |-> LowerChar(s[i])]

RECURSIVE Escape(_)
\* s.replace("'", "\\'")
Escape(s) ==
    IF s = <<>> THEN <<>>
    ELSE IF Head(s) = "'" THEN <<"\\", "'">> \o Escape(Tail(s))
    ELSE <<Head(s)>> \o Escape(Tail(s))

RECURSIVE Literal(_)
\* The text a formula reads from the body of a quoted literal '...': a
\* backslash quotes the next character; a bare quote or a trailing backslash
\* leaves the formula malformed (None).
Literal(body) ==
    IF body = <<>> THEN Some(<<>>)
    ELSE IF Head(body) = "\\" THEN
        IF Len(body) = 1 THEN None
        ELSE LET rest == Literal(SubSeq(body, 3, Len(body)))
             IN  IF rest.some THEN Some(<<body[2]>> \o rest.val) ELSE None
    ELSE IF Head(body) = "'" THEN None
    ELSE LET rest == Literal(Tail(body))
         IN  IF rest.some THEN Some(<<Head(body)>> \o rest.val) ELSE None

\* Airtable's FIND(needle, hay): the 1-based position of the first occurrence,
\* 0 when there is none; emptyFind is what the service answers for an empty
\* needle.
Find(needle, hay, emptyFind) ==
    IF needle = <<>> THEN emptyFind
    ELSE LET hits == {i \in 1..(Len(hay) - Len(needle) + 1) :
                         SubSeq(hay, i, i + Len(needle) - 1) = needle}
         IN  IF hits = {} THEN 0
             ELSE CHOOSE i \in hits : \A j \in hits : i <= j

RECURSIVE ArrayJoin(_)
\* Airtable's ARRAYJOIN() of a link field, separator ","
ArrayJoin(ids) ==
    IF ids = <<>> THEN <<>>
    ELSE IF Len(ids) = 1 THEN ids[1]
    ELSE ids[1] \o <<",">> \o ArrayJoin(Tail(ids))

\* code-point order of the characters of the model
Rank(c) ==
    CASE c = " " -> 32 [] c = "'" -> 39 [] c = "A" -> 65 [] c = "B" -> 66
      [] c = "\\" -> 92 [] c = "a" -> 97 [] c = "b" -> 98 [] OTHER -> 127

RECURSIVE TextLE(_, _)
TextLE(s, t) ==
    IF s = <<>> THEN TRUE
    ELSE IF t = <<>> THEN FALSE
    ELSE IF Head(s) # Head(t) THEN Rank(Head(s)) < Rank(Head(t))
    ELSE TextLE(Tail(s), Tail(t))

RECURSIVE SelectRecords(_, _)
\* the records of a table that a filter (a set of records) keeps, in table order
SelectRecords(table, keep) ==
    IF table = <<>> THEN <<>>
    ELSE IF Head(table) \in keep THEN <<Head(table)>> \o SelectRecords(Tail(table), keep)
    ELSE SelectRecords(Tail(table), keep)

\* the first n elements
Take(s, n) == SubSeq(s, 1, IF Len(s) < n THEN Len(s) ELSE n)

Range(s) == {s[i] : i \in 1..Len(s)}

RECURSIVE SumQuantity(_)
\* sum(r["fields"].get("Quantity Reserved", 0) for r in allocation_records)
SumQuantity(records) ==
    IF records = <<>> THEN 0
    ELSE Get(Head(records).fields, "Quantity Reserved", 0) + SumQuantity(Tail(records))

\* ------------------------------------------------------------------------
\* The stores at start
\* ------------------------------------------------------------------------
Camera == <<"A", "'", "b">>

Lens == <<"a", "b">>

Boom == <<"b", "A">>

Rec1 == <<"r", "1">>

Rec2 == <<"r", "2">>

Rec3 == <<"r", "3">>

Rec4 == <<"r", "4">>

Asset(id, fields) == [id |-> id, fields |-> fields]

InitialAssets ==
    << Asset(Rec1, ("Asset Name" :> Camera) @@ ("Total Quantity" :> 2) @@ ("Daily Rate" :> 3)),
       Asset(Rec2, ("Asset Name" :> Lens) @@ ("Total Quantity" :> 1)),
       Asset(Rec3, ("Asset Name" :> Boom) @@ ("Daily Rate" :> 2)),
       Asset(Rec4, ("Asset Name" :> Camera) @@ ("Total Quantity" :> 5) @@ ("Daily Rate" :> 1)) >>

AllocationFields(links, scene, date, qty, status) ==
    ("Asset Link" :> links) @@ ("Scene Ref" :> scene) @@ ("Start Date" :> date)
        @@ ("Quantity Reserved" :> qty) @@ ("Status" :> status)

Allocation(id, fields) == [id |-> id, fields |-> fields]

InitialAllocations ==
    << Allocation(1, AllocationFields(<<Rec1>>, "S1", 1, 1, "Confirmed")),
       Allocation(2, AllocationFields(<<Rec1>>, "S1", 1, 1, "Pending")),
       Allocation(3, AllocationFields(<<Rec1>>, "S2", 1, 2, "Cancelled")),
       Allocation(4, AllocationFields(<<Rec1>>, "S2", 2, 1, "Confirmed")),
       Allocation(5, AllocationFields(<<Rec4, Rec2>>, "S1", 1, 1, "Confirmed")),
       Allocation(6, ("Asset Link" :> <<Rec1>>) @@ ("Start Date" :> 1) @@ ("Status" :> "Confirmed")),
       Allocation(7, AllocationFields(<<Rec4>>, "S1", 1, 2, "Confirmed")) >>

\* the empty dict {}
EmptyDict == [k \in {} |-> None]

Page(id, properties) == [id |-> id, properties |-> properties]

TitleProp(blocks) == ("type" :> "title") @@ ("title" :> blocks)

DateProp(date) == ("type" :> "date") @@ ("date" :> date)

RichTextProp(blocks) == ("type" :> "rich_text") @@ ("rich_text" :> blocks)

NumberProp(n) == ("type" :> "number") @@ ("number" :> n)

SelectProp(sel) == ("type" :> "select") @@ ("select" :> sel)

Text(t) == ("plain_text" :> t)

On(day) == Some(("start" :> day))

\* the schedule database: out of date order, a scene in the past, scenes
\* without a number, a scene with an empty title, a scene without a date
SchedulePages ==
    << Page("p2", ("Scene Number" :> TitleProp(<<Text("S2")>>)) @@ ("Shoot Date" :> DateProp(On(2)))
                    @@ ("Script Breakdown" :> RichTextProp(<<Text(<<"crane">>), Text(<<"dolly">>)>>))
                    @@ ("Est. Budget" :> NumberProp(Some(7)))
                    @@ ("Logistics Status" :> SelectProp(Some(("name" :> "Pending"))))),
       Page("p1", ("Scene Number" :> TitleProp(<<Text("S1")>>)) @@ ("Shoot Date" :> DateProp(On(1)))
                    @@ ("Logistics Status" :> SelectProp(None))),
       Page("p0", ("Scene Number" :> TitleProp(<<Text("S0")>>)) @@ ("Shoot Date" :> DateProp(On(0)))),
       Page("p3", ("Shoot Date" :> DateProp(On(3))) @@ ("Est. Budget" :> NumberProp(None))),
       Page("p4", ("Scene Number" :> TitleProp(<<>>)) @@ ("Shoot Date" :> DateProp(On(4)))),
       Page("p3b", ("Scene Number" :> TitleProp(<<EmptyDict>>)) @@ ("Shoot Date" :> DateProp(On(3)))
                    @@ ("Script Breakdown" :> SelectProp(None))),
       Page("p5", ("Scene Number" :> TitleProp(<<Text("S5")>>)) @@ ("Shoot Date" :> DateProp(None))) >>

\* ------------------------------------------------------------------------
\* Outcomes of an external call and the exception text
\* ------------------------------------------------------------------------
\* str(e) of an exception raised by a service
AirtableError == <<"airtable request failed">>

FormulaError == <<"INVALID_FILTER_BY_FORMULA">>

NotionError == <<"notion request failed">>

IndexError == <<"list index out of range">>

AttributeError == <<"'NoneType' object has no attribute 'get'">>

Call(api, ok) == [api |-> api, ok |-> ok]

\* a call either answers (ans) or raises (err)
Answer(v) == [ok |-> TRUE, ans |-> v]

Raise(e) == [ok |-> FALSE, err |-> e]

\* ------------------------------------------------------------------------
\* The Airtable service
\* ------------------------------------------------------------------------
\* assets_table.all(formula=f"{{Asset Name}}='{escaped_name}'", max_records=1)
\* where escaped is the text the code put between the quotes
AssetsByName(table, escaped, o) ==
    IF o # "ok" THEN Raise(AirtableError)
    ELSE LET lit == Literal(escaped)
         IN  IF ~lit.some THEN Raise(FormulaError)
             ELSE Answer(Take(SelectRecords(table,
                     {r \in Range(table) : Get(r.fields, "Asset Name", <<>>) = lit.val}), 1))

\* the allocation formula without its status clause
AllocationFormula_AnyStatus(r, asset_record_id, shoot_date) ==
    /\ Find(asset_record_id, ArrayJoin(Get(r.fields, "Asset Link", <<>>)), 0) > 0
    /\ "Start Date" \in DOMAIN r.fields
    /\ r.fields["Start Date"] = shoot_date

\* AND(FIND('<id>', ARRAYJOIN({Asset Link})), {Start Date}='<date>',
\*     OR({Status}='Confirmed', {Status}='Pending'))
AllocationFormula(r, asset_record_id, shoot_date) ==
    /\ Find(asset_record_id, ArrayJoin(Get(r.fields, "Asset Link", <<>>)), 0) > 0
    /\ "Start Date" \in DOMAIN r.fields
    /\ r.fields["Start Date"] = shoot_date
    /\ "Status" \in DOMAIN r.fields
    /\ r.fields["Status"] \in {"Confirmed", "Pending"}

\* allocations_table.all(formula=allocation_formula)
AllocationsByFormula(table, asset_record_id, shoot_date, o) ==
    IF o # "ok" THEN Raise(AirtableError)
    ELSE Answer(SelectRecords(table,
            {r \in Range(table) : AllocationFormula(r, asset_record_id, shoot_date)}))

\* the id the service gives a created record
NewRecordId(table) ==
    IF table = <<>> THEN 1
    ELSE 1 + (CHOOSE m \in {r.id : r \in Range(table)} :
                 \A r \in Range(table) : r.id <= m)

\* a create that answers with the record already holding these fields
AllocationsCreate_Upsert(table, fields, o) ==
    IF o # "ok" THEN Raise(AirtableError)
    ELSE IF \E r \in Range(table) : r.fields = fields
    THEN Answer(CHOOSE r \in Range(table) : r.fields = fields)
    ELSE Answer(Allocation(NewRecordId(table), fields))

\* allocations_table.create(fields): the answer is the new record
AllocationsCreate(table, fields, o) ==
    IF o # "ok" THEN Raise(AirtableError)
    ELSE Answer(Allocation(NewRecordId(table), fields))

\* ------------------------------------------------------------------------
\* check_availability
\* ------------------------------------------------------------------------
\* the defaults with asset_found defaulting to True
AvailabilityDefaults_Found ==
    [total_owned |-> 0, reserved_on_date |-> 0, available |-> 0, daily_rate |-> 0,
     is_available |-> FALSE, asset_found |-> TRUE, error |-> None]

AvailabilityDefaults ==
    [total_owned |-> 0, reserved_on_date |-> 0, available |-> 0, daily_rate |-> 0,
     is_available |-> FALSE, asset_found |-> FALSE, error |-> None]

AvailabilityOutput(given) == given @@ AvailabilityDefaults

\* the message without the quotes around the name
NotFoundText_Unquoted(asset_name) == <<"Asset ">> \o asset_name \o <<" not found">>

\* f"Asset '{asset_name}' not found"
NotFoundText(asset_name) == <<"Asset '">> \o asset_name \o <<"' not found">>

\* an asset with nothing left counted as available
is_available_NotNegative(available) == available >= 0

\* is_available=(available > 0)
is_available(available) == available > 0

\* the output and the external calls of check_availability(input) against the
\* two tables; o gives the outcome of each call
check_availability(table_assets, table_allocations, input, o) ==
    LET asset_name == Strip(input.asset_name)
        shoot_date == input.shoot_date
        asset_records == AssetsByName(table_assets, Escape(asset_name), o.assets)
        c1 == Call("Assets.all", asset_records.ok)
    IN  IF ~asset_records.ok THEN
            [out   |-> AvailabilityOutput([asset_name |-> asset_name, shoot_date |-> shoot_date,
                          status |-> "error", error |-> Some(asset_records.err)]),
             calls |-> <<c1>>]
        ELSE IF asset_records.ans = <<>> THEN
            [out   |-> AvailabilityOutput([asset_name |-> asset_name, shoot_date |-> shoot_date,
                          asset_found |-> FALSE, status |-> "success",
                          error |-> Some(NotFoundText(asset_name))]),
             calls |-> <<c1>>]
        ELSE
            LET asset_fields == asset_records.ans[1].fields
                asset_record_id == asset_records.ans[1].id
                total_owned == Get(asset_fields, "Total Quantity", 0)
                daily_rate == Get(asset_fields, "Daily Rate", 0)
                allocation_records ==
                    AllocationsByFormula(table_allocations, asset_record_id, shoot_date,
                                         o.allocations)
                c2 == Call("Allocations.all", allocation_records.ok)
            IN  IF ~allocation_records.ok THEN
                    [out   |-> AvailabilityOutput([asset_name |-> asset_name,
                                  shoot_date |-> shoot_date, status |-> "error",
                                  error |-> Some(allocation_records.err)]),
                     calls |-> <<c1, c2>>]
                ELSE
                    LET reserved == SumQuantity(allocation_records.ans)
                        available == total_owned - reserved
                    IN  [out   |-> AvailabilityOutput([asset_name |-> asset_name,
                                      shoot_date |-> shoot_date, total_owned |-> total_owned,
                                      reserved_on_date |-> reserved, available |-> available,
                                      daily_rate |-> daily_rate,
                                      is_available |-> is_available(available),
                                      asset_found |-> TRUE, status |-> "success"]),
                         calls |-> <<c1, c2>>]

\* ------------------------------------------------------------------------
\* search_inventory
\* ------------------------------------------------------------------------
RECURSIVE InsertByName(_, _)
InsertByName(r, sorted) ==
    IF sorted = <<>> THEN <<r>>
    ELSE IF TextLE(Get(Head(sorted).fields, "Asset Name", <<>>), Get(r.fields, "Asset Name", <<>>))
         THEN <<Head(sorted)>> \o InsertByName(r, Tail(sorted))
    ELSE <<r>> \o sorted

RECURSIVE SortByName(_)
\* sort=["Asset Name"], records of equal name in table order
SortByName(records) ==
    IF records = <<>> THEN <<>>
    ELSE InsertByName(records[Len(records)], SortByName(SubSeq(records, 1, Len(records) - 1)))

\* the search formula comparing FIND's position with >= 0
SearchFormula_NotNegative(r, query, emptyFind) ==
    Find(Lower(query), Lower(Get(r.fields, "Asset Name", <<>>)), emptyFind) >= 0

\* FIND(LOWER('<query>'), LOWER({Asset Name})) > 0
SearchFormula(r, query, emptyFind) ==
    Find(Lower(query), Lower(Get(r.fields, "Asset Name", <<>>)), emptyFind) > 0

\* table.all(formula=formula, max_records=max_results, sort=["Asset Name"])
AssetsSearch(table, escaped, max_records, o, emptyFind) ==
    IF o # "ok" THEN Raise(AirtableError)
    ELSE LET lit == Literal(escaped)
         IN  IF ~lit.some THEN Raise(FormulaError)
             ELSE Answer(Take(SortByName(SelectRecords(table,
                     {r \in Range(table) : SearchFormula(r, lit.val, emptyFind)})), max_records))

AssetData(record) ==
    [asset_name         |-> Get(record.fields, "Asset Name", <<"Unknown">>),
     total_quantity     |-> Get(record.fields, "Total Quantity", 0),
     daily_rate         |-> Get(record.fields, "Daily Rate", 0),
     category           |-> Get(record.fields, "Category", <<"N/A">>),
     maintenance_status |-> Get(record.fields, "Maintenance Status", <<"Unknown">>),
     record_id          |-> Some(record.id)]

SearchDefaults == [assets |-> <<>>, items_found |-> 0, error |-> None]

SearchOutput(given) == given @@ SearchDefaults

search_inventory(table_assets, input, o) ==
    LET query == Strip(input.query)
        max_results == input.max_results
        records == AssetsSearch(table_assets, Escape(query), max_results, o.assets, o.emptyFind)
        c1 == Call("Assets.all", records.ok)
    IN  IF ~records.ok THEN
            [out   |-> SearchOutput([query |-> query, status |-> "error",
                          error |-> Some(records.err)]),
             calls |-> <<c1>>]
        ELSE
            LET found == [i \in 1..Len(records.ans) |-> AssetData(records.ans[i])]
            IN  [out   |-> SearchOutput([assets |-> found, query |-> query,
                              items_found |-> Len(found), status |-> "success"]),
                 calls |-> <<c1>>]

\* ------------------------------------------------------------------------
\* The Notion service
\* ------------------------------------------------------------------------
\* the day of a page's Shoot Date, None when the page has none
PageDay(page) ==
    LET prop == Get(page.properties, "Shoot Date", EmptyDict)
        date == Get(prop, "date", None)
    IN  IF date.some /\ "start" \in DOMAIN date.val THEN Some(date.val["start"]) ELSE None

\* {"and": [{on_or_after: from}, {on_or_before: to}]} on "Shoot Date"
ScheduleFilter(page, from, to) ==
    /\ PageDay(page).some
    /\ from <= PageDay(page).val
    /\ PageDay(page).val <= to

RECURSIVE InsertByDay_Descending(_, _)
\* the insertion of a descending sort
InsertByDay_Descending(page, sorted) ==
    IF sorted = <<>> THEN <<page>>
    ELSE IF PageDay(Head(sorted)).val >= PageDay(page).val
         THEN <<Head(sorted)>> \o InsertByDay_Descending(page, Tail(sorted))
    ELSE <<page>> \o sorted

RECURSIVE InsertByDay(_, _)
InsertByDay(page, sorted) ==
    IF sorted = <<>> THEN <<page>>
    ELSE IF PageDay(Head(sorted)).val <= PageDay(page).val
         THEN <<Head(sorted)>> \o InsertByDay(page, Tail(sorted))
    ELSE <<page>> \o sorted

RECURSIVE SortByDay(_)
\* "sorts": [{"property": "Shoot Date", "direction": "ascending"}]
SortByDay(ps) ==
    IF ps = <<>> THEN <<>>
    ELSE InsertByDay(ps[Len(ps)], SortByDay(SubSeq(ps, 1, Len(ps) - 1)))

\* notion.data_sources.query(data_source_id, filter, sorts): one request, so
\* at most PageSize results
DataSourcesQuery(pgs, from, to, o) ==
    IF o # "ok" THEN Raise(NotionError)
    ELSE Answer(Take(SortByDay(SelectRecords(pgs,
            {p \in Range(pgs) : ScheduleFilter(p, from, to)})), PageSize))

\* notion.pages.update(page_id, properties): the answer is the database after
\* the update; an unknown page id is refused
PagesUpdate(pgs, page_id, properties, o) ==
    IF o # "ok" \/ ~\E i \in 1..Len(pgs) : pgs[i].id = page_id THEN Raise(NotionError)
    ELSE Answer([i \in 1..Len(pgs) |->
            IF pgs[i].id = page_id
            THEN Page(page_id, properties @@ pgs[i].properties)
            ELSE pgs[i]])

\* ------------------------------------------------------------------------
\* get_schedule
\* ------------------------------------------------------------------------
\* shoot_date of a page whose date has no "start"
Unknown == -1

RECURSIVE JoinPlainText(_)
\* "".join([block.get("plain_text", "") for block in rich_text_list])
JoinPlainText(blocks) ==
    IF blocks = <<>> THEN <<>>
    ELSE Get(Head(blocks), "plain_text", <<>>) \o JoinPlainText(Tail(blocks))

_extract_rich_text(field) ==
    IF field = EmptyDict \/ Get(field, "type", "") # "rich_text" THEN <<>>
    ELSE JoinPlainText(Get(field, "rich_text", <<>>))

_extract_select(field, default) ==
    IF field = EmptyDict \/ Get(field, "type", "") # "select" THEN default
    ELSE LET select_value == Get(field, "select", None)
         IN  IF select_value = None THEN default
             ELSE Get(select_value.val, "name", default)

\* the extraction that gives a page with an empty title the number "N/A"
\* and a page with a null date the date Unknown instead of raising
SceneData_Lenient(page) ==
    LET props == page.properties
        title == Get(Get(props, "Scene Number", EmptyDict), "title", <<EmptyDict>>)
        date == Get(Get(props, "Shoot Date", EmptyDict), "date", Some(EmptyDict))
    IN  Answer(
            [scene_id         |-> page.id,
             scene_number     |-> IF title = <<>> THEN "N/A"
                                  ELSE Get(title[1], "plain_text", "N/A"),
             shoot_date       |-> IF date = None THEN Unknown
                                  ELSE Get(date.val, "start", Unknown),
             script_breakdown |-> _extract_rich_text(Get(props, "Script Breakdown", EmptyDict)),
             est_budget       |-> Get(Get(props, "Est. Budget", EmptyDict), "number", None),
             logistics_status |-> _extract_select(Get(props, "Logistics Status", EmptyDict),
                                                  "Pending")])

\* the SceneData built from one page of the response, or the exception the
\* property access raises
SceneData(page) ==
    LET props == page.properties
        title == Get(Get(props, "Scene Number", EmptyDict), "title", <<EmptyDict>>)
        date == Get(Get(props, "Shoot Date", EmptyDict), "date", Some(EmptyDict))
    IN  IF title = <<>> THEN Raise(IndexError)
        ELSE IF date = None THEN Raise(AttributeError)
        ELSE Answer(
            [scene_id         |-> page.id,
             scene_number     |-> Get(title[1], "plain_text", "N/A"),
             shoot_date       |-> Get(date.val, "start", Unknown),
             script_breakdown |-> _extract_rich_text(Get(props, "Script Breakdown", EmptyDict)),
             est_budget       |-> Get(Get(props, "Est. Budget", EmptyDict), "number", None),
             logistics_status |-> _extract_select(Get(props, "Logistics Status", EmptyDict),
                                                  "Pending")])

ScheduleDefaults == [scenes |-> <<>>, date_range |-> EmptyDict, total_scenes |-> 0, error |-> None]

ScheduleOutput(given) == given @@ ScheduleDefaults

get_schedule(pgs, now, input, o) ==
    LET days_ahead == input.days_ahead
        end_date == now + days_ahead
        date_range == [start |-> now, end |-> end_date]
        response == DataSourcesQuery(pgs, now, end_date, o.notion)
        c1 == Call("data_sources.query", response.ok)
    IN  IF ~response.ok THEN
            [out   |-> ScheduleOutput([date_range |-> date_range, status |-> "error",
                          error |-> Some(response.err)]),
             calls |-> <<c1>>]
        ELSE
            LET built == [i \in 1..Len(response.ans) |-> SceneData(response.ans[i])]
                failed == {i \in 1..Len(built) : ~built[i].ok}
            IN  IF failed # {} THEN
                    LET first == CHOOSE i \in failed : \A j \in failed : i <= j
                    IN  [out   |-> ScheduleOutput([date_range |-> date_range,
                                      status |-> "error", error |-> Some(built[first].err)]),
                         calls |-> <<c1>>]
                ELSE
                    LET scenes == [i \in 1..Len(built) |-> built[i].ans]
                    IN  [out   |-> ScheduleOutput([scenes |-> scenes, date_range |-> date_range,
                                      total_scenes |-> Len(scenes), status |-> "success"]),
                         calls |-> <<c1>>]

\* ------------------------------------------------------------------------
\* create_reservation
\* ------------------------------------------------------------------------
ReservationDefaults ==
    [allocation_id |-> None, daily_rate |-> 0, total_cost |-> 0,
     scene_status_updated |-> FALSE, error |-> None]

ReservationOutput(given) == given @@ ReservationDefaults

\* the created record with the status of a request instead of "Confirmed"
NewAllocationFields_Pending(asset_record_id, scene_number, shoot_date, quantity) ==
    ("Asset Link" :> <<asset_record_id>>) @@ ("Scene Ref" :> scene_number)
        @@ ("Start Date" :> shoot_date) @@ ("Quantity Reserved" :> quantity)
        @@ ("Status" :> "Pending")

\* the created record holding one unit whatever the quantity asked for
NewAllocationFields_OneUnit(asset_record_id, scene_number, shoot_date, quantity) ==
    ("Asset Link" :> <<asset_record_id>>) @@ ("Scene Ref" :> scene_number)
        @@ ("Start Date" :> shoot_date) @@ ("Quantity Reserved" :> 1)
        @@ ("Status" :> "Confirmed")

\* the record passed to allocations_table.create
NewAllocationFields(asset_record_id, scene_number, shoot_date, quantity) ==
    ("Asset Link" :> <<asset_record_id>>) @@ ("Scene Ref" :> scene_number)
        @@ ("Start Date" :> shoot_date) @@ ("Quantity Reserved" :> quantity)
        @@ ("Status" :> "Confirmed")

\* the properties passed to notion.pages.update
SceneUpdate(total_cost) ==
    ("Logistics Status" :> SelectProp(Some(("name" :> "Reserved"))))
        @@ ("Est. Budget" :> NumberProp(Some(total_cost)))

\* step 3 with scene_updated set before the update instead of after it
UpdateSceneStatus_SetFirst(pgs, scene_id, total_cost, o) ==
    LET updated == PagesUpdate(pgs, scene_id, SceneUpdate(total_cost), o)
    IN  [scene_updated |-> TRUE,
         pages |-> IF updated.ok THEN updated.ans ELSE pgs,
         call |-> Call("pages.update", updated.ok)]

\* step 3 adding the cost to the budget the scene already has
UpdateSceneStatus_Accumulating(pgs, scene_id, total_cost, o) ==
    LET before == {Get(pg.properties, "Est. Budget", NumberProp(None))["number"] :
                      pg \in {q \in Range(pgs) : q.id = scene_id}}
        sum == IF before = {} \/ before = {None} THEN total_cost
               ELSE total_cost + (CHOOSE n \in before : TRUE).val
        updated == PagesUpdate(pgs, scene_id, SceneUpdate(sum), o)
    IN  [scene_updated |-> updated.ok,
         pages |-> IF updated.ok THEN updated.ans ELSE pgs,
         call |-> Call("pages.update", updated.ok)]

\* step 3: the update of the scene, whose failure is swallowed
UpdateSceneStatus(pgs, scene_id, total_cost, o) ==
    LET updated == PagesUpdate(pgs, scene_id, SceneUpdate(total_cost), o)
    IN  [scene_updated |-> updated.ok,
         pages |-> IF updated.ok THEN updated.ans ELSE pgs,
         call |-> Call("pages.update", updated.ok)]

\* the output and the external calls of create_reservation(input), and the
\* Allocations table and the schedule pages it leaves
create_reservation(table_assets, table_allocations, pgs, input, o) ==
    LET asset_name == Strip(input.asset_name)
        scene_id == input.scene_id
        scene_number == input.scene_number
        shoot_date == input.shoot_date
        quantity == input.quantity
        echo == [asset_name |-> asset_name, scene_number |-> scene_number,
                 shoot_date |-> shoot_date, quantity |-> quantity]
        asset_records == AssetsByName(table_assets, Escape(asset_name), o.assets)
        c1 == Call("Assets.all", asset_records.ok)
    IN  IF ~asset_records.ok THEN
            [out   |-> ReservationOutput([reservation_created |-> FALSE, status |-> "error",
                          error |-> Some(asset_records.err)] @@ echo),
             calls |-> <<c1>>, allocations |-> table_allocations, pages |-> pgs]
        ELSE IF asset_records.ans = <<>> THEN
            [out   |-> ReservationOutput([reservation_created |-> FALSE, status |-> "error",
                          error |-> Some(NotFoundText(asset_name))] @@ echo),
             calls |-> <<c1>>, allocations |-> table_allocations, pages |-> pgs]
        ELSE
            LET asset_record_id == asset_records.ans[1].id
                daily_rate == Get(asset_records.ans[1].fields, "Daily Rate", 0)
                total_cost == daily_rate * quantity
                new_record ==
                    AllocationsCreate(table_allocations,
                        NewAllocationFields(asset_record_id, scene_number, shoot_date, quantity),
                        o.create)
                c2 == Call("Allocations.create", new_record.ok)
            IN  IF ~new_record.ok THEN
                    [out   |-> ReservationOutput([reservation_created |-> FALSE,
                                  status |-> "error", error |-> Some(new_record.err)] @@ echo),
                     calls |-> <<c1, c2>>, allocations |-> table_allocations, pages |-> pgs]
                ELSE
                    LET step3 == UpdateSceneStatus(pgs, scene_id, total_cost, o.notion)
                    IN  [out   |-> ReservationOutput([reservation_created |-> TRUE,
                                      allocation_id |-> Some(new_record.ans.id),
                                      daily_rate |-> daily_rate, total_cost |-> total_cost,
                                      scene_status_updated |-> step3.scene_updated,
                                      status |-> "success"] @@ echo),
                         calls |-> <<c1, c2, step3.call>>,
                         allocations |-> Append(table_allocations, new_record.ans),
                         pages |-> step3.pages]

\* ------------------------------------------------------------------------
\* The Slack service
\* ------------------------------------------------------------------------
\* slack_conn.get('channel_id')
ConfiguredChannel == "C1"

\* the channel id the workspace knows a channel reference by, None if unknown
ResolveChannel(channel) ==
    CASE channel = "C1" -> Some("C1")
      [] channel = "C2" -> Some("C2")
      [] channel = "#ops" -> Some("C2")
      [] OTHER -> None

SlackOutcome == {"ok", "api_error", "other"}

SlackApiError(code) == [type |-> "SlackApiError", response |-> [error |-> code]]

\* any exception of the client that is not a SlackApiError (no connection)
TransportError == [type |-> "URLError"]

\* slack_client.chat_postMessage(channel, text, blocks): the answer carries
\* the ts and the channel id of the stored message
ChatPostMessage(msgs, channel, text, blocks, o) ==
    IF o = "other" THEN Raise(TransportError)
    ELSE IF o = "api_error" THEN Raise(SlackApiError("ratelimited"))
    ELSE IF ~ResolveChannel(channel).some THEN Raise(SlackApiError("channel_not_found"))
    ELSE Answer([ts |-> Len(msgs) + 1, channel |-> ResolveChannel(channel).val,
                 text |-> text, blocks |-> blocks])

PostCall(channel, ok) == [api |-> "chat.postMessage", ok |-> ok, channel |-> channel]

\* an exception that leaves the tool
Escapes(e) == [exception |-> e]

\* the default taken only for None, not for the empty string
OrElse_NoneOnly(x, y) == IF x.some THEN x.val ELSE y

\* x or y, for an Optional[str] x
OrElse(x, y) == IF x.some /\ x.val # "" THEN x.val ELSE y

\* ------------------------------------------------------------------------
\* post_briefing
\* ------------------------------------------------------------------------
BriefingDefaults == [message_ts |-> None, channel |-> None, error |-> None]

BriefingOutput(given) == given @@ BriefingDefaults

BriefingBlocks(message, now) ==
    << [type |-> "header", text |-> <<"Production Update">>],
       [type |-> "section", text |-> <<message>>],
       [type |-> "context", text |-> <<"Posted by Production Assistant | ", ToString(now)>>] >>

\* the output and the external calls of post_briefing(input), and the
\* messages of the workspace afterwards
post_briefing(msgs, now, input, o) ==
    LET message == input.message
        channel_id == OrElse(input.channel_id, ConfiguredChannel)
        response == ChatPostMessage(msgs, channel_id, <<message>>,
                                    BriefingBlocks(message, now), o.slack)
        c1 == PostCall(channel_id, response.ok)
    IN  IF response.ok THEN
            [out   |-> BriefingOutput([posted |-> TRUE, message_ts |-> Some(response.ans.ts),
                          channel |-> Some(response.ans.channel), status |-> "success"]),
             calls |-> <<c1>>, messages |-> Append(msgs, response.ans)]
        ELSE IF response.err.type = "SlackApiError" THEN
            [out   |-> BriefingOutput([posted |-> FALSE, status |-> "error",
                          error |-> Some(response.err.response.error)]),
             calls |-> <<c1>>, messages |-> msgs]
        ELSE
            [out |-> Escapes(response.err), calls |-> <<c1>>, messages |-> msgs]

\* ------------------------------------------------------------------------
\* send_approval_request
\* ------------------------------------------------------------------------
\* the defaults with the configured channel where nothing was posted
ApprovalDefaults_ConfiguredChannel ==
    [message_ts |-> None, channel |-> Some(ConfiguredChannel), error |-> None]

ApprovalDefaults == [message_ts |-> None, channel |-> None, error |-> None]

ApprovalOutput(given) == given @@ ApprovalDefaults

Button(label, style, value, action_id) ==
    [type |-> "button", text |-> label, style |-> style, value |-> value,
     action_id |-> action_id]

\* the buttons offered only for a purchase above the approval threshold
ApprovalBlocks_AboveThresholdOnly(item_description, total_cost, scene_number, now) ==
    LET scene_text == IF scene_number.some /\ scene_number.val # ""
                      THEN <<"\n*Scene:* ", scene_number.val>> ELSE <<>>
        section == [type |-> "section",
                    text |-> <<"*Item:* ", item_description, "\n*Total Cost:* $",
                               ToString(total_cost)>>
                                \o scene_text \o <<"\n*Requested by:* Production Assistant">>]
        actions == [type |-> "actions",
                    elements |-> << Button("Approve", "primary",
                                           <<"approve_", item_description>>, "approve_purchase"),
                                    Button("Deny", "danger",
                                           <<"deny_", item_description>>, "deny_purchase") >>]
        context == [type |-> "context",
                    text |-> <<"Approval threshold: $100 | Requested at ", ToString(now)>>]
    IN  <<[type |-> "header", text |-> <<"Approval Required">>], section>>
            \o (IF total_cost > 100 THEN <<actions>> ELSE <<>>) \o <<context>>

ApprovalBlocks(item_description, total_cost, scene_number, now) ==
    LET scene_text == IF scene_number.some /\ scene_number.val # ""
                      THEN <<"\n*Scene:* ", scene_number.val>> ELSE <<>>
    IN  << [type |-> "header", text |-> <<"Approval Required">>],
           [type |-> "section",
            text |-> <<"*Item:* ", item_description, "\n*Total Cost:* $", ToString(total_cost)>>
                        \o scene_text \o <<"\n*Requested by:* Production Assistant">>],
           [type |-> "actions",
            elements |-> << Button("Approve", "primary", <<"approve_", item_description>>,
                                   "approve_purchase"),
                            Button("Deny", "danger", <<"deny_", item_description>>,
                                   "deny_purchase") >>],
           [type |-> "context",
            text |-> <<"Approval threshold: $100 | Requested at ", ToString(now)>>] >>

send_approval_request(msgs, now, input, o) ==
    LET item_description == input.item_description
        total_cost == input.total_cost
        scene_number == input.scene_number
        channel_id == OrElse(input.channel_id, ConfiguredChannel)
        response == ChatPostMessage(msgs, channel_id,
                        <<"Approval needed: ", item_description, " ($", ToString(total_cost), ")">>,
                        ApprovalBlocks(item_description, total_cost, scene_number, now),
                        o.slack)
        c1 == PostCall(channel_id, response.ok)
    IN  IF response.ok THEN
            [out   |-> ApprovalOutput([sent |-> TRUE, message_ts |-> Some(response.ans.ts),
                          channel |-> Some(response.ans.channel),
                          item_description |-> item_description, total_cost |-> total_cost,
                          status |-> "success"]),
             calls |-> <<c1>>, messages |-> Append(msgs, response.ans)]
        ELSE IF response.err.type = "SlackApiError" THEN
            [out   |-> ApprovalOutput([sent |-> FALSE, item_description |-> item_description,
                          total_cost |-> total_cost, status |-> "error",
                          error |-> Some(response.err.response.error)]),
             calls |-> <<c1>>, messages |-> msgs]
        ELSE
            [out |-> Escapes(response.err), calls |-> <<c1>>, messages |-> msgs]

\* ------------------------------------------------------------------------
\* place_order (skills/communications.py)
\* ------------------------------------------------------------------------
\* the per-process keys of the interpreter's str hash: PYTHONHASHSEED is set
\* nowhere in the repository, so every interpreter start draws its own
HashSeeds == {0, 1}

HashModulus == 65536

RECURSIVE HashText(_, _)
HashText(h, s) ==
    IF s = <<>> THEN h
    ELSE HashText((h * 131 + Rank(Head(s))) % HashModulus, Tail(s))

\* hash(text) of the interpreter keyed by seed: a signed integer that is a
\* function of the key and the text
StrHash(seed, s) == HashText(seed * 4099 + 7, s) - HashModulus \div 2

Abs(n) == IF n < 0 THEN -n ELSE n

\* f"{n:04d}" for 0 <= n < 10000
Format04d(n) ==
    <<ToString(n \div 1000), ToString((n \div 100) % 10), ToString((n \div 10) % 10),
      ToString(n % 10)>>

\* date.strftime(fmt): the text of the day in the given format
Strftime(day, fmt) == <<fmt, ToString(day)>>

OrderDefaults ==
    [order_id |-> None, vendor |-> "Production Supply Co.", estimated_delivery |-> None,
     error |-> None]

OrderOutput(given) == given @@ OrderDefaults

\* nothing in the try block raises for a validated input, so the except
\* branch has no outcome to model
place_order(now, seed, input) ==
    LET item_name == input.item_name
        quantity == input.quantity
        unit_cost == input.unit_cost
        order_id == <<"PO-">> \o Strftime(now, "%Y%m%d") \o <<"-">>
                        \o Format04d(Abs(StrHash(seed, item_name)) % 10000)
        total_cost == unit_cost * quantity
        estimated_delivery == Strftime(now + 2, "%Y-%m-%d")
    IN  [out   |-> OrderOutput([order_placed |-> TRUE, order_id |-> Some(order_id),
                       item_name |-> item_name, quantity |-> quantity,
                       total_cost |-> total_cost, vendor |-> "Production Supply Co.",
                       estimated_delivery |-> Some(estimated_delivery),
                       status |-> "success"]),
         calls |-> <<>>]

\* ------------------------------------------------------------------------
\* Inputs of the tools
\* ------------------------------------------------------------------------
Padded == <<" ">> \o Camera \o <<" ">>

NoSuchAsset == <<"B">>

AvailabilityInputs ==
    [asset_name : {Padded, Lens, Boom, NoSuchAsset}, shoot_date : ShootDates]

ReservationInputs ==
    [asset_name : {Padded, NoSuchAsset}, scene_id : {"p1", "p9"}, scene_number : {"S1"},
     shoot_date : ShootDates, quantity : 1..MaxQuantity]

SearchInputs ==
    [query : {<<"a">>, <<" ", "'", "B", " ">>, <<" ">>, <<"\\">>, <<"b", "b">>},
     max_results : 1..MaxResults]

ScheduleInputs == [days_ahead : 1..MaxDaysAhead]

ChannelInputs == {None, Some(""), Some("#ops"), Some("C9")}

BriefingInputs == [message : {"wrap at six"}, channel_id : ChannelInputs]

ApprovalInputs ==
    [item_description : {"crane"}, total_cost : {50, 150},
     scene_number : {None, Some(""), Some("S1")}, channel_id : ChannelInputs]

Gels == <<"a", "A">>

Tape == <<"b">>

OrderInputs ==
    [item_name : {Gels, Tape}, quantity : 1..MaxQuantity, unit_cost : {0, 45},
     scene_number : {None, Some("S1")}]

\* two callers of the orchestrator that want the same asset
Callers == {"c1", "c2"}

ConcInputs == {i \in ReservationInputs : i.asset_name = Padded /\ i.scene_id = "p1"}

\* outcomes of the calls of one invocation: at most one call raises, since
\* no tool goes on to its next call after one
AllOk(apis) == [a \in apis |-> "ok"]

OneFails(apis) == {AllOk(apis)} \cup {[AllOk(apis) EXCEPT ![a] = "fail"] : a \in apis}

\* ------------------------------------------------------------------------
\* State machine
\* ------------------------------------------------------------------------
Idle == [tool |-> "none"]

\* a caller before its check_availability: seen will hold the output of its
\* check_availability, out the output of its create_reservation, calls the
\* external calls made for it
NotCalling == [pc |-> "idle", input |-> None, seen |-> None, out |-> None, calls |-> <<>>]

Init ==
    /\ assets = InitialAssets
    /\ allocations = InitialAllocations
    /\ pages = SchedulePages
    /\ messages = <<>>
    /\ today \in 1..MaxDay
    /\ hash_seed \in HashSeeds
    /\ placed = {}
    /\ callers = [c \in Callers |-> NotCalling]
    /\ ret = Idle
    /\ calls = <<>>

\* the orchestrator invokes one tool at a time: the tool runs from its first
\* line to its return, and ret holds what it returns
Returned(tool, input, r) ==
    /\ ret = Idle
    /\ ret' = [tool |-> tool, input |-> input, out |-> r.out]
    /\ calls' = r.calls

\* the orchestrator takes the result; the next invocation can start
Deliver ==
    /\ ret # Idle
    /\ ret' = Idle
    /\ calls' = <<>>
    /\ UNCHANGED <<assets, allocations, pages, messages, today, hash_seed, placed, callers>>

GetSchedule ==
    \E input \in ScheduleInputs, o \in OneFails({"notion"}) :
        /\ Returned("get_schedule", input, get_schedule(pages, today, input, o))
        /\ UNCHANGED <<assets, allocations, pages, messages, today, hash_seed, placed, callers>>

SearchInventory ==
    \E input \in SearchInputs, o \in OneFails({"assets"}), emptyFind \in {0, 1} :
        /\ Returned("search_inventory", input,
                    search_inventory(assets, input, o @@ [emptyFind |-> emptyFind]))
        /\ UNCHANGED <<assets, allocations, pages, messages, today, hash_seed, placed, callers>>

\* check_availability that also places a Pending hold on an available asset
CheckAvailability_Holding ==
    \E input \in AvailabilityInputs, o \in OneFails({"assets", "allocations"}) :
        LET r == check_availability(assets, allocations, input, o)
        IN  /\ Returned("check_availability", input, r)
            /\ allocations' =
                  IF r.out.is_available
                        /\ Len(allocations) < Len(InitialAllocations) + MaxNewAllocations
                  THEN Append(allocations,
                          Allocation(NewRecordId(allocations),
                              ("Start Date" :> input.shoot_date) @@ ("Status" :> "Pending")))
                  ELSE allocations
            /\ UNCHANGED <<assets, pages, messages, today, hash_seed, placed, callers>>

CheckAvailability ==
    \E input \in AvailabilityInputs, o \in OneFails({"assets", "allocations"}) :
        /\ Returned("check_availability", input,
                    check_availability(assets, allocations, input, o))
        /\ UNCHANGED <<assets, allocations, pages, messages, today, hash_seed, placed, callers>>

\* create_reservation that reads the availability first and refuses a
\* quantity the asset does not have left
CreateReservation_IfAvailable ==
    \E input \in ReservationInputs, o \in OneFails({"assets", "create", "notion"}) :
        /\ Len(allocations) < Len(InitialAllocations) + MaxNewAllocations
        /\ LET made == create_reservation(assets, allocations, pages, input, o)
               left == check_availability(assets, allocations,
                           [asset_name |-> input.asset_name, shoot_date |-> input.shoot_date],
                           AllOk({"assets", "allocations"})).out.available
               refused == create_reservation(assets, allocations, pages, input,
                              [o EXCEPT !.create = "fail"])
               r == IF made.out.reservation_created /\ left < input.quantity
                    THEN [refused EXCEPT !.calls = <<made.calls[1]>>]
                    ELSE made
           IN  /\ Returned("create_reservation", input, r)
               /\ allocations' = r.allocations
               /\ pages' = r.pages
        /\ UNCHANGED <<assets, messages, today, hash_seed, placed, callers>>

\* create_reservation that tries a failed step a second time
CreateReservation_Retrying ==
    \E input \in ReservationInputs, o \in OneFails({"assets", "create", "notion"}) :
        /\ Len(allocations) < Len(InitialAllocations) + MaxNewAllocations
        /\ LET once == create_reservation(assets, allocations, pages, input, o)
               failed == SelectSeq(once.calls, LAMBDA c : ~c.ok)
               r == [once EXCEPT !.calls = once.calls \o failed]
           IN  /\ Returned("create_reservation", input, r)
               /\ allocations' = r.allocations
               /\ pages' = r.pages
        /\ UNCHANGED <<assets, messages, today, hash_seed, placed, callers>>

\* create_reservation whose create call raises after the service has
\* stored the record
CreateReservation_LostAnswer ==
    \E input \in ReservationInputs, o \in OneFails({"assets", "create", "notion"}) :
        /\ Len(allocations) < Len(InitialAllocations) + MaxNewAllocations
        /\ LET r == create_reservation(assets, allocations, pages, input, o)
               stored == create_reservation(assets, allocations, pages, input,
                             [o EXCEPT !.create = "ok", !.notion = "fail"]).allocations
           IN  /\ Returned("create_reservation", input, r)
               /\ allocations' = IF Len(r.calls) = 2 /\ ~r.calls[2].ok
                                 THEN stored ELSE r.allocations
               /\ pages' = r.pages
        /\ UNCHANGED <<assets, messages, today, hash_seed, placed, callers>>

CreateReservation ==
    \E input \in ReservationInputs, o \in OneFails({"assets", "create", "notion"}) :
        /\ Len(allocations) < Len(InitialAllocations) + MaxNewAllocations
        /\ LET r == create_reservation(assets, allocations, pages, input, o)
           IN  /\ Returned("create_reservation", input, r)
               /\ allocations' = r.allocations
               /\ pages' = r.pages
        /\ UNCHANGED <<assets, messages, today, hash_seed, placed, callers>>

PostBriefing ==
    \E input \in BriefingInputs, o \in [slack : SlackOutcome] :
        /\ Len(messages) < MaxMessages
        /\ LET r == post_briefing(messages, today, input, o)
           IN  /\ Returned("post_briefing", input, r)
               /\ messages' = r.messages
        /\ UNCHANGED <<assets, allocations, pages, today, hash_seed, placed, callers>>

SendApprovalRequest ==
    \E input \in ApprovalInputs, o \in [slack : SlackOutcome] :
        /\ Len(messages) < MaxMessages
        /\ LET r == send_approval_request(messages, today, input, o)
           IN  /\ Returned("send_approval_request", input, r)
               /\ messages' = r.messages
        /\ UNCHANGED <<assets, allocations, pages, today, hash_seed, placed, callers>>

\* place_order keeps no record; placed is what the orchestrator was handed
PlaceOrder ==
    \E input \in OrderInputs :
        LET r == place_order(today, hash_seed, input)
        IN  /\ Returned("place_order", input, r)
            /\ placed' = placed \cup {[item_name |-> input.item_name,
                                       order_id |-> r.out.order_id]}
            /\ UNCHANGED <<assets, allocations, pages, messages, today, hash_seed, callers>>

\* the process that hosts the tools is started anew between two invocations
Restart ==
    /\ ret = Idle
    /\ hash_seed' \in HashSeeds \ {hash_seed}
    /\ UNCHANGED <<assets, allocations, pages, messages, today, placed, callers, ret, calls>>

\* ------------------------------------------------------------------------
\* The reservation path of a caller, one external call per step: every
\* caller runs check_availability and, when it was told is_available, goes
\* on to create_reservation.  No tool writes the Assets table, so a lookup
\* answers at every step what the tool's operator computes for it.
\* ------------------------------------------------------------------------
Query(input) == [asset_name |-> input.asset_name, shoot_date |-> input.shoot_date]

\* check_availability: assets_table.all(formula, max_records=1)
CallerCheckLookup(c) ==
    /\ callers[c].pc = "idle"
    /\ \E input \in ConcInputs, o \in {"ok", "fail"} :
          LET found == AssetsByName(assets, Escape(Strip(input.asset_name)), o)
              r == check_availability(assets, allocations, Query(input),
                                      [assets |-> o, allocations |-> "ok"])
          IN  callers' = [callers EXCEPT ![c] =
                  IF found.ok /\ found.ans # <<>>
                  THEN [@ EXCEPT !.pc = "check.allocations", !.input = Some(input),
                                 !.calls = <<r.calls[1]>>]
                  ELSE [@ EXCEPT !.pc = "done", !.input = Some(input),
                                 !.seen = Some(r.out), !.calls = r.calls]]
    /\ UNCHANGED <<assets, allocations, pages, messages, today, hash_seed, placed, ret, calls>>

\* check_availability: allocations_table.all(formula) and the return
CallerCheckRead(c) ==
    /\ callers[c].pc = "check.allocations"
    /\ \E o \in {"ok", "fail"} :
          LET r == check_availability(assets, allocations, Query(callers[c].input.val),
                                      [assets |-> "ok", allocations |-> o])
          IN  callers' = [callers EXCEPT ![c] =
                  [@ EXCEPT !.pc = IF r.out.is_available THEN "create.lookup" ELSE "done",
                            !.seen = Some(r.out), !.calls = r.calls]]
    /\ UNCHANGED <<assets, allocations, pages, messages, today, hash_seed, placed, ret, calls>>

\* create_reservation: assets_table.all(formula, max_records=1)
CallerCreateLookup(c) ==
    /\ callers[c].pc = "create.lookup"
    /\ \E o \in {"ok", "fail"} :
          LET input == callers[c].input.val
              found == AssetsByName(assets, Escape(Strip(input.asset_name)), o)
              r == create_reservation(assets, allocations, pages, input,
                                      [assets |-> o, create |-> "ok", notion |-> "ok"])
          IN  callers' = [callers EXCEPT ![c] =
                  IF found.ok /\ found.ans # <<>>
                  THEN [@ EXCEPT !.pc = "create.create", !.calls = @ \o <<r.calls[1]>>]
                  ELSE [@ EXCEPT !.pc = "done", !.out = Some(r.out),
                                 !.calls = @ \o r.calls]]
    /\ UNCHANGED <<assets, allocations, pages, messages, today, hash_seed, placed, ret, calls>>

\* a create that first reads the allocations again and refuses a quantity
\* the asset no longer has
CallerCreate_Rechecking(c) ==
    /\ callers[c].pc = "create.create"
    /\ \E o \in {"ok", "fail"} :
          LET input == callers[c].input.val
              left == check_availability(assets, allocations, Query(input),
                          AllOk({"assets", "allocations"})).out.available
              refused == left < input.quantity
              r == create_reservation(assets, allocations, pages, input,
                       [assets |-> "ok", create |-> IF refused THEN "fail" ELSE o,
                        notion |-> "fail"])
          IN  /\ allocations' = r.allocations
              /\ callers' = [callers EXCEPT ![c] =
                    [@ EXCEPT !.pc = IF r.out.reservation_created
                                     THEN "create.notion" ELSE "done",
                              !.out = Some(r.out),
                              !.calls = IF refused THEN @ ELSE @ \o <<r.calls[2]>>]]
    /\ UNCHANGED <<assets, pages, messages, today, hash_seed, placed, ret, calls>>

\* create_reservation: allocations_table.create(fields); out holds the
\* output as far as it is known, scene_status_updated still False
CallerCreate(c) ==
    /\ callers[c].pc = "create.create"
    /\ \E o \in {"ok", "fail"} :
          LET r == create_reservation(assets, allocations, pages, callers[c].input.val,
                       [assets |-> "ok", create |-> o, notion |-> "fail"])
          IN  /\ allocations' = r.allocations
              /\ callers' = [callers EXCEPT ![c] =
                    [@ EXCEPT !.pc = IF r.out.reservation_created
                                     THEN "create.notion" ELSE "done",
                              !.out = Some(r.out), !.calls = @ \o <<r.calls[2]>>]]
    /\ UNCHANGED <<assets, pages, messages, today, hash_seed, placed, ret, calls>>

\* create_reservation: the best-effort pages.update and the return
CallerUpdateScene(c) ==
    /\ callers[c].pc = "create.notion"
    /\ \E o \in {"ok", "fail"} :
          LET step3 == UpdateSceneStatus(pages, callers[c].input.val.scene_id,
                                         callers[c].out.val.total_cost, o)
          IN  /\ pages' = step3.pages
              /\ callers' = [callers EXCEPT ![c] =
                    [@ EXCEPT !.pc = "done",
                              !.out = Some([@.val EXCEPT
                                        !.scene_status_updated = step3.scene_updated]),
                              !.calls = @ \o <<step3.call>>]]
    /\ UNCHANGED <<assets, allocations, messages, today, hash_seed, placed, ret, calls>>

ConcNext ==
    \E c \in Callers :
        \/ CallerCheckLookup(c)
        \/ CallerCheckRead(c)
        \/ CallerCreateLookup(c)
        \/ CallerCreate(c)
        \/ CallerUpdateScene(c)

DataNext == GetSchedule \/ SearchInventory \/ CheckAvailability \/ CreateReservation

CommsNext == PostBriefing \/ SendApprovalRequest

OrderNext == PlaceOrder \/ Restart

Next == DataNext \/ CommsNext \/ OrderNext \/ ConcNext \/ Deliver

Spec == Init /\ [][Next]_vars

\* the tools of skills/data.py alone
DataSpec == Init /\ [][DataNext \/ Deliver]_vars

\* the two Slack tools of skills/communications.py
CommsSpec == Init /\ [][CommsNext \/ Deliver]_vars

\* place_order alone, across restarts of its process
OrderSpec == Init /\ [][OrderNext \/ Deliver]_vars

\* two callers on the reservation path, their external calls interleaved
ConcSpec == Init /\ [][ConcNext]_vars

\* ------------------------------------------------------------------------
\* Vocabulary of the properties
\* ------------------------------------------------------------------------
Min(S) == CHOOSE i \in S : \A j \in S : i <= j

\* the positions of the asset records named name
Named(name) ==
    {i \in 1..Len(assets) :
        "Asset Name" \in DOMAIN assets[i].fields /\ assets[i].fields["Asset Name"] = name}

\* the asset record a lookup by exact name yields (the first one)
TheAsset(name) == assets[Min(Named(name))]

\* the positions of the allocations that reserve the asset on the date
Reserving(table, asset_id, date) ==
    {i \in 1..Len(table) :
        /\ "Asset Link" \in DOMAIN table[i].fields
        /\ \E k \in 1..Len(table[i].fields["Asset Link"]) :
              table[i].fields["Asset Link"][k] = asset_id
        /\ "Start Date" \in DOMAIN table[i].fields
        /\ table[i].fields["Start Date"] = date
        /\ "Status" \in DOMAIN table[i].fields
        /\ table[i].fields["Status"] \in {"Confirmed", "Pending"}}

RECURSIVE TotalReserved(_, _)
TotalReserved(table, I) ==
    IF I = {} THEN 0
    ELSE LET i == Min(I)
         IN  (IF "Quantity Reserved" \in DOMAIN table[i].fields
              THEN table[i].fields["Quantity Reserved"] ELSE 0)
             + TotalReserved(table, I \ {i})

AllCallsOk == \A i \in 1..Len(calls) : calls[i].ok

\* ------------------------------------------------------------------------
\* C1: when the asset is found and no external call fails, check_availability
\* returns as reserved_on_date the sum of Quantity Reserved over exactly the
\* allocations linked to that asset, starting on shoot_date, with status
\* Confirmed or Pending, and available = total_owned - reserved_on_date.
\* ------------------------------------------------------------------------
C1_ReservedIsSumOfMatching ==
    (/\ ret.tool = "check_availability"
     /\ AllCallsOk
     /\ Named(Strip(ret.input.asset_name)) # {})
    => LET asset == TheAsset(Strip(ret.input.asset_name))
           reserved == TotalReserved(allocations,
                           Reserving(allocations, asset.id, ret.input.shoot_date))
       IN  /\ ret.out.status = "success"
           /\ ret.out.asset_found
           /\ ret.out.reserved_on_date = reserved
           /\ ret.out.total_owned =
                 (IF "Total Quantity" \in DOMAIN asset.fields
                  THEN asset.fields["Total Quantity"] ELSE 0)
           /\ ret.out.available = ret.out.total_owned - ret.out.reserved_on_date

\* a check of the camera on day 1 after a reservation was added to the two
\* counted ones, beside allocations of another asset, day and status
C1_Witness ==
    /\ ret.tool = "check_availability"
    /\ ret.out.asset_found
    /\ ret.out.reserved_on_date >= 3
    /\ ret.out.available < 0
    /\ \E i \in 1..Len(allocations) : allocations[i].fields["Status"] = "Cancelled"

\* ------------------------------------------------------------------------
\* C2: the Notion update of create_reservation is best-effort: once the
\* allocation is created the call returns status "success",
\* reservation_created and the id of the new allocation, which stays in the
\* table, whether or not the update fails; scene_status_updated is TRUE
\* exactly when the update succeeded.
\* ------------------------------------------------------------------------
C2_NotionUpdateIsBestEffort ==
    ret.tool = "create_reservation" =>
        /\ (Len(calls) >= 2 /\ calls[2].ok) =>
              /\ Len(calls) = 3
              /\ calls[3].api = "pages.update"
              /\ ret.out.status = "success"
              /\ ret.out.reservation_created
              /\ ret.out.allocation_id = Some(allocations[Len(allocations)].id)
              /\ ret.out.scene_status_updated = calls[3].ok
        /\ ret.out.scene_status_updated => (Len(calls) = 3 /\ calls[3].ok)

\* an allocation was created and the update of the scene failed
C2_Witness ==
    /\ ret.tool = "create_reservation"
    /\ Len(calls) = 3
    /\ calls[2].ok
    /\ ~calls[3].ok
    /\ ret.out.status = "success"
    /\ ~ret.out.scene_status_updated
    /\ Len(allocations) > Len(InitialAllocations)

\* ------------------------------------------------------------------------
\* C3: a create_reservation that returns "success" has appended exactly one
\* allocation: Confirmed, linked to the looked-up asset, with Scene Ref,
\* Start Date and Quantity Reserved of the input; no other allocation is
\* created, changed or deleted; when the Notion update succeeds the scene's
\* Logistics Status is "Reserved".
\* ------------------------------------------------------------------------
C3_Step ==
    (ret'.tool = "create_reservation" /\ ret'.out.status = "success") =>
        LET input == ret'.input
            new == allocations'[Len(allocations')]
        IN  /\ Named(Strip(input.asset_name)) # {}
            /\ Len(allocations') = Len(allocations) + 1
            /\ \A i \in 1..Len(allocations) : allocations'[i] = allocations[i]
            /\ \A i \in 1..Len(allocations) : allocations[i].id # new.id
            /\ ret'.out.allocation_id = Some(new.id)
            /\ DOMAIN new.fields = {"Asset Link", "Scene Ref", "Start Date",
                                    "Quantity Reserved", "Status"}
            /\ new.fields["Asset Link"] = <<TheAsset(Strip(input.asset_name)).id>>
            /\ new.fields["Scene Ref"] = input.scene_number
            /\ new.fields["Start Date"] = input.shoot_date
            /\ new.fields["Quantity Reserved"] = input.quantity
            /\ new.fields["Status"] = "Confirmed"
            /\ calls'[3].ok =>
                  \E i \in 1..Len(pages') :
                      /\ pages'[i].id = input.scene_id
                      /\ pages'[i].properties["Logistics Status"]["select"]
                            = Some(("name" :> "Reserved"))

C3_SuccessAddsOneConfirmedAllocation == [][C3_Step]_vars

\* a second successful reservation, whose scene was updated
C3_Witness ==
    /\ ret.tool = "create_reservation"
    /\ ret.out.status = "success"
    /\ ret.out.scene_status_updated
    /\ Len(allocations) = Len(InitialAllocations) + 2

\* ------------------------------------------------------------------------
\* C6: create_reservation for a name that matches no asset returns status
\* "error", reservation_created FALSE, no allocation_id and the error
\* "Asset '<name>' not found"; it creates no allocation and attempts no
\* Notion update.
\* ------------------------------------------------------------------------
C6_Step ==
    (/\ ret'.tool = "create_reservation"
     /\ calls'[1].ok
     /\ Named(Strip(ret'.input.asset_name)) = {})
    => /\ ret'.out.status = "error"
       /\ ret'.out.reservation_created = FALSE
       /\ ret'.out.allocation_id = None
       /\ ret'.out.error =
             Some(<<"Asset '">> \o Strip(ret'.input.asset_name) \o <<"' not found">>)
       /\ Len(calls') = 1
       /\ calls'[1].api = "Assets.all"
       /\ allocations' = allocations
       /\ pages' = pages

C6_UnknownAssetReservesNothing == [][C6_Step]_vars

\* a reservation refused for the unknown name, after one that succeeded
C6_Witness ==
    /\ ret.tool = "create_reservation"
    /\ ret.input.asset_name = NoSuchAsset
    /\ ret.out.error = Some(<<"Asset '", "B", "' not found">>)
    /\ ~ret.out.reservation_created
    /\ Len(allocations) > Len(InitialAllocations)

\* ------------------------------------------------------------------------
\* C5: get_schedule, search_inventory and check_availability leave the asset
\* records, the allocation records, the schedule records (and the messages)
\* as they were, on success and on error.
\* ------------------------------------------------------------------------
ReadOnlyTools == {"get_schedule", "search_inventory", "check_availability"}

C5_Step ==
    ret'.tool \in ReadOnlyTools =>
        /\ assets' = assets
        /\ allocations' = allocations
        /\ pages' = pages
        /\ messages' = messages

C5_ReadOnlyToolsChangeNothing == [][C5_Step]_vars

\* a read-only tool ran, and succeeded, on stores a reservation had changed
C5_Witness ==
    /\ ret.tool \in ReadOnlyTools
    /\ ret.out.status = "success"
    /\ Len(allocations) > Len(InitialAllocations)
    /\ pages # SchedulePages

\* ------------------------------------------------------------------------
\* C7: check_availability for a name that matches no asset returns
\* asset_found FALSE, is_available FALSE, zero total_owned, reserved_on_date
\* and available, status "success" and the error "Asset '<name>' not found",
\* without querying the allocations; asset_found is TRUE exactly when the
\* lookup returned a record and no later call failed.
\* ------------------------------------------------------------------------
C7_UnknownAssetIsReportedNotFound ==
    ret.tool = "check_availability" =>
        /\ (calls[1].ok /\ Named(Strip(ret.input.asset_name)) = {}) =>
              /\ ret.out.asset_found = FALSE
              /\ ret.out.is_available = FALSE
              /\ ret.out.total_owned = 0
              /\ ret.out.reserved_on_date = 0
              /\ ret.out.available = 0
              /\ ret.out.status = "success"
              /\ ret.out.error =
                    Some(<<"Asset '">> \o Strip(ret.input.asset_name) \o <<"' not found">>)
              /\ Len(calls) = 1
              /\ calls[1].api = "Assets.all"
        /\ ret.out.asset_found <=>
              (AllCallsOk /\ Named(Strip(ret.input.asset_name)) # {})

\* the unknown name was checked
C7_Witness ==
    /\ ret.tool = "check_availability"
    /\ ret.input.asset_name = NoSuchAsset
    /\ ret.out.status = "success"
    /\ ~ret.out.asset_found
    /\ ret.out.error = Some(<<"Asset '", "B", "' not found">>)

\* ------------------------------------------------------------------------
\* C8: search_inventory on success returns only assets whose Asset Name
\* contains the trimmed query as a case-insensitive substring, at most
\* max_results of them, with items_found their number; a failed query gives
\* status "error", no assets and items_found 0.
\* ------------------------------------------------------------------------
SameLetter(c, d) ==
    \/ c = d
    \/ {c, d} = {"a", "A"}
    \/ {c, d} = {"b", "B"}

ContainsIgnoringCase(hay, needle) ==
    \E i \in 1..(Len(hay) + 1) :
        /\ i + Len(needle) - 1 <= Len(hay)
        /\ \A k \in 1..Len(needle) : SameLetter(hay[i + k - 1], needle[k])

C8_SearchReturnsOnlyMatches ==
    ret.tool = "search_inventory" =>
        /\ ret.out.status \in {"success", "error"}
        /\ ret.out.status = "success" =>
              /\ \A i \in 1..Len(ret.out.assets) :
                    /\ ContainsIgnoringCase(ret.out.assets[i].asset_name,
                                            Strip(ret.input.query))
                    /\ \E j \in 1..Len(assets) :
                          /\ Some(assets[j].id) = ret.out.assets[i].record_id
                          /\ assets[j].fields["Asset Name"] = ret.out.assets[i].asset_name
              /\ Len(ret.out.assets) <= ret.input.max_results
              /\ ret.out.items_found = Len(ret.out.assets)
        /\ ~calls[1].ok => ret.out.status = "error"
        /\ ret.out.status = "error" =>
              /\ ret.out.assets = <<>>
              /\ ret.out.items_found = 0

\* a search in another case and with blanks around it, cut at max_results
C8_Witness ==
    /\ ret.tool = "search_inventory"
    /\ ret.input.query = <<" ", "'", "B", " ">>
    /\ ret.out.status = "success"
    /\ ret.out.items_found = 1
    /\ ret.input.max_results = 1
    /\ ret.out.assets[1].asset_name = Camera

\* ------------------------------------------------------------------------
\* C9: get_schedule on success returns only scenes with
\* today <= Shoot Date <= today + days_ahead, in non-decreasing Shoot Date
\* order, total_scenes their number and date_range {start: today,
\* end: today + days_ahead}; on error it returns that date_range, no scenes
\* and total_scenes 0.
\* ------------------------------------------------------------------------
C9_ScheduleWindowSortedAndCounted ==
    ret.tool = "get_schedule" =>
        LET scenes == ret.out.scenes
            last == today + ret.input.days_ahead
        IN  /\ ret.out.status \in {"success", "error"}
            /\ ret.out.date_range = [start |-> today, end |-> last]
            /\ ret.out.status = "success" =>
                  /\ \A i \in 1..Len(scenes) :
                        /\ today <= scenes[i].shoot_date
                        /\ scenes[i].shoot_date <= last
                        /\ \E j \in 1..Len(pages) :
                              /\ pages[j].id = scenes[i].scene_id
                              /\ pages[j].properties["Shoot Date"]["date"]
                                    = Some(("start" :> scenes[i].shoot_date))
                  /\ \A i, j \in 1..Len(scenes) :
                        i < j => scenes[i].shoot_date <= scenes[j].shoot_date
                  /\ ret.out.total_scenes = Len(scenes)
            /\ ret.out.status = "error" =>
                  /\ scenes = <<>>
                  /\ ret.out.total_scenes = 0

\* scenes of different days, stored in another order, returned in date order
C9_Witness ==
    /\ ret.tool = "get_schedule"
    /\ ret.out.status = "success"
    /\ ret.out.total_scenes >= 3
    /\ ret.out.scenes[1].shoot_date = today
    /\ ret.out.scenes[3].shoot_date = today + ret.input.days_ahead
    /\ ret.out.scenes[1].shoot_date < ret.out.scenes[3].shoot_date

\* ------------------------------------------------------------------------
\* C4: every tool, for every outcome of its external calls, returns an output
\* whose status is "success" or "error"; a failed external call yields status
\* "error" with a non-null error, and no exception leaves the tool.
\* ------------------------------------------------------------------------
C4_EveryToolReturnsAStatus ==
    ret.tool # "none" =>
        /\ "status" \in DOMAIN ret.out
        /\ ret.out.status \in {"success", "error"}
        /\ (\E i \in 1..Len(calls) : ~calls[i].ok) =>
              (ret.out.status = "error" /\ ret.out.error # None)

\* ------------------------------------------------------------------------
\* C10: post_briefing and send_approval_request each issue exactly one post
\* per invocation, to the caller's channel_id when it is given and non-empty
\* and to the configured channel otherwise; a post that succeeds adds exactly
\* one message, and the channel of the output is the one the service
\* returned for it; a post that fails adds none.
\* ------------------------------------------------------------------------
C10_Step ==
    ret'.tool \in {"post_briefing", "send_approval_request"} =>
        LET given == ret'.input.channel_id
            target == IF given # None /\ given.val # "" THEN given.val ELSE ConfiguredChannel
        IN  /\ Len(calls') = 1
            /\ calls'[1].api = "chat.postMessage"
            /\ calls'[1].channel = target
            /\ calls'[1].ok =>
                  /\ Len(messages') = Len(messages) + 1
                  /\ \A i \in 1..Len(messages) : messages'[i] = messages[i]
                  /\ Some(messages'[Len(messages')].channel) = ResolveChannel(target)
                  /\ ret'.out.channel = Some(messages'[Len(messages')].channel)
            /\ ~calls'[1].ok => messages' = messages

C10_OnePostToTheChosenChannel == [][C10_Step]_vars

\* an approval request without channel_id went to the configured channel
\* after a briefing addressed by channel name was reported under its id
C10_Witness ==
    /\ ret.tool = "send_approval_request"
    /\ ret.input.channel_id = Some("")
    /\ calls[1].ok
    /\ ret.out.channel = Some(ConfiguredChannel)
    /\ Len(messages) = 2
    /\ messages[1].channel = "C2"
    /\ messages[2].channel = ConfiguredChannel

\* ------------------------------------------------------------------------
\* C11: place_order calls no service and changes no store; a valid input
\* gets status success, order_placed True, total_cost = unit_cost * quantity,
\* the vendor Production Supply Co., a delivery two days from today and an
\* order_id PO-<today>-<4 digits> whose digits come from item_name alone, so
\* that every order placed for the same item on the same day carries the
\* same order_id
\* ------------------------------------------------------------------------
C11_Step ==
    (ret = Idle /\ ret'.tool = "place_order") =>
        LET input == ret'.input
            out == ret'.out
        IN  /\ calls' = <<>>
            /\ UNCHANGED <<assets, allocations, pages, messages>>
            /\ out.status = "success"
            /\ out.order_placed
            /\ out.total_cost = input.unit_cost * input.quantity
            /\ out.vendor = "Production Supply Co."
            /\ out.estimated_delivery = Some(Strftime(today + 2, "%Y-%m-%d"))
            /\ out.order_id.some
            /\ \E d \in [1..4 -> 0..9] :
                  out.order_id.val = <<"PO-">> \o Strftime(today, "%Y%m%d") \o <<"-">>
                                        \o [i \in 1..4 |-> ToString(d[i])]
            /\ \A p \in placed :
                  p.item_name = input.item_name => p.order_id = out.order_id

C11_OrderIsMadeFromItemAndDay == [][C11_Step]_vars

\* ------------------------------------------------------------------------
\* C12: the message send_approval_request posts carries exactly two buttons,
\* Approve (approve_purchase, approve_<item_description>) and Deny
\* (deny_purchase, deny_<item_description>), whatever the total_cost, above
\* the $100 of the context line or not; it has a Scene line exactly when
\* scene_number is given and non-empty; the output, success or error, echoes
\* item_description and total_cost
\* ------------------------------------------------------------------------
\* the buttons of a posted message, block after block
RECURSIVE ButtonsOf(_)
ButtonsOf(blocks) ==
    IF blocks = <<>> THEN <<>>
    ELSE (IF Head(blocks).type = "actions" THEN Head(blocks).elements ELSE <<>>)
            \o ButtonsOf(Tail(blocks))

HasSceneLine(blocks) ==
    \E i \in 1..Len(blocks) :
        /\ "text" \in DOMAIN blocks[i]
        /\ \E j \in 1..Len(blocks[i].text) : blocks[i].text[j] = "\n*Scene:* "

C12_Step ==
    ret'.tool = "send_approval_request" =>
        LET input == ret'.input
            item == input.item_description
            posted == messages'[Len(messages')]
            buttons == ButtonsOf(posted.blocks)
        IN  /\ calls'[1].ok =>
                  /\ Len(messages') = Len(messages) + 1
                  /\ Len(buttons) = 2
                  /\ buttons[1].type = "button" /\ buttons[2].type = "button"
                  /\ buttons[1].text = "Approve"
                  /\ buttons[1].action_id = "approve_purchase"
                  /\ buttons[1].value = <<"approve_", item>>
                  /\ buttons[2].text = "Deny"
                  /\ buttons[2].action_id = "deny_purchase"
                  /\ buttons[2].value = <<"deny_", item>>
                  /\ HasSceneLine(posted.blocks)
                        <=> (input.scene_number # None /\ input.scene_number.val # "")
                  /\ ret'.out.status = "success"
            /\ "status" \in DOMAIN ret'.out =>
                  /\ ret'.out.status \in {"success", "error"}
                  /\ ret'.out.item_description = item
                  /\ ret'.out.total_cost = input.total_cost

C12_ApprovalCarriesTwoButtons == [][C12_Step]_vars

\* a purchase under the threshold with an empty scene number was posted with
\* both buttons and no Scene line, after one above the threshold and with a
\* scene number had been posted with its Scene line
C12_Witness ==
    /\ ret.tool = "send_approval_request"
    /\ ret.input.total_cost = 50
    /\ ret.input.scene_number = Some("")
    /\ calls[1].ok
    /\ Len(ButtonsOf(messages[Len(messages)].blocks)) = 2
    /\ ~HasSceneLine(messages[Len(messages)].blocks)
    /\ ret.out.total_cost = 50
    /\ Len(messages) = 2
    /\ HasSceneLine(messages[1].blocks)
    /\ \E i \in 1..4 : messages[1].blocks[i].type = "section"
                          /\ messages[1].blocks[i].text[4] = "150"

\* ------------------------------------------------------------------------
\* C13: create_reservation is not idempotent: a successful invocation that
\* repeats an earlier successful one (same asset, scene number, date and
\* quantity) creates a second allocation record with an id of its own, and
\* a check_availability of that asset and date then counts both quantities
\* ------------------------------------------------------------------------
\* the positions of the allocations create_reservation has added
Created(table) == {i \in 1..Len(table) : i > Len(InitialAllocations)}

C13_Step ==
    (ret'.tool = "create_reservation" /\ ret'.out.status = "success") =>
        LET input == ret'.input
            new == allocations'[Len(allocations')]
            query == [asset_name |-> input.asset_name, shoot_date |-> input.shoot_date]
            ok == AllOk({"assets", "allocations"})
        IN  \A j \in Created(allocations) :
                allocations[j].fields = new.fields =>
                    /\ Len(allocations') = Len(allocations) + 1
                    /\ allocations'[j] = allocations[j]
                    /\ new.id # allocations[j].id
                    /\ ret'.out.allocation_id = Some(new.id)
                    /\ check_availability(assets, allocations', query, ok).out.reserved_on_date
                          = check_availability(assets,
                                SelectRecords(allocations',
                                    Range(allocations') \ {allocations[j], new}),
                                query, ok).out.reserved_on_date
                            + 2 * input.quantity

C13_RepeatedReservationAddsASecondRecord == [][C13_Step]_vars

\* after the same reservation of 2 cameras for day 2 was made twice, a
\* check_availability for that day counted 1 + 2 + 2 reserved
C13_Witness ==
    /\ ret.tool = "check_availability"
    /\ ret.input = [asset_name |-> Padded, shoot_date |-> 2]
    /\ AllCallsOk
    /\ Created(allocations) = {Len(InitialAllocations) + 1, Len(InitialAllocations) + 2}
    /\ allocations[Len(InitialAllocations) + 1].fields
          = allocations[Len(InitialAllocations) + 2].fields
    /\ allocations[Len(InitialAllocations) + 1].id
          # allocations[Len(InitialAllocations) + 2].id
    /\ allocations[Len(allocations)].fields["Quantity Reserved"] = 2
    /\ ret.out.reserved_on_date = 5

\* ------------------------------------------------------------------------
\* C14: nothing coordinates two callers on the check-then-reserve path: a
\* caller that was told is_available and whose lookup and create calls did
\* not fail gets its reservation, whatever the other caller did in between,
\* and the reserved quantity of a date is the initial one plus that of every
\* caller's created record; so two callers can both be told is_available,
\* both reserve, and leave more reserved than the asset's Total Quantity
\* ------------------------------------------------------------------------
\* the callers whose create call has answered, for the date
Holding(date) ==
    {c \in Callers : /\ callers[c].out # None
                     /\ callers[c].out.val.reservation_created
                     /\ callers[c].input.val.shoot_date = date}

RECURSIVE HeldQuantity(_)
HeldQuantity(S) ==
    IF S = {} THEN 0
    ELSE LET c == CHOOSE x \in S : TRUE
         IN  callers[c].input.val.quantity + HeldQuantity(S \ {c})

ReservedOn(table, date) ==
    TotalReserved(table, Reserving(table, TheAsset(Strip(Padded)).id, date))

C14_NothingHoldsBackAReservation ==
    /\ \A c \in Callers :
          (/\ callers[c].pc = "done"
           /\ callers[c].seen # None
           /\ callers[c].seen.val.is_available
           /\ \A i \in 1..Len(callers[c].calls) : i <= 4 => callers[c].calls[i].ok)
          => /\ callers[c].out.val.status = "success"
             /\ callers[c].out.val.reservation_created
             /\ \E i \in Created(allocations) :
                   /\ Some(allocations[i].id) = callers[c].out.val.allocation_id
                   /\ allocations[i].fields["Quantity Reserved"]
                         = callers[c].input.val.quantity
                   /\ allocations[i].fields["Start Date"] = callers[c].input.val.shoot_date
                   /\ allocations[i].fields["Status"] = "Confirmed"
    /\ \A d \in ShootDates :
          ReservedOn(allocations, d)
             = ReservedOn(InitialAllocations, d) + HeldQuantity(Holding(d))

\* both callers were told that 1 camera is available on day 2, both reserved
\* 1, and 3 are reserved of the 2 the asset has
C14_Witness ==
    /\ \A c \in Callers :
          /\ callers[c].pc = "done"
          /\ callers[c].input.val.shoot_date = 2
          /\ callers[c].input.val.quantity = 1
          /\ callers[c].seen.val.is_available
          /\ callers[c].seen.val.available = 1
          /\ callers[c].out # None
          /\ callers[c].out.val.status = "success"
    /\ callers["c1"].out.val.allocation_id # callers["c2"].out.val.allocation_id
    /\ ReservedOn(allocations, 2) = 3
    /\ ReservedOn(allocations, 2) > TheAsset(Strip(Padded)).fields["Total Quantity"]

\* ------------------------------------------------------------------------
\* C15: create_reservation checks no availability: whenever its lookup finds
\* the asset and its create call does not fail, it reserves the quantity
\* asked for, with or without a check_availability before it and whatever is
\* left of the asset, so that a later check_availability can report a
\* negative available and is_available False
\* ------------------------------------------------------------------------
C15_Step ==
    (/\ ret'.tool = "create_reservation"
     /\ calls'[1].ok
     /\ Named(Strip(ret'.input.asset_name)) # {}
     /\ \A i \in 1..Len(calls') : calls'[i].api = "Allocations.create" => calls'[i].ok)
    => LET input == ret'.input
           new == allocations'[Len(allocations')]
       IN  /\ ret'.out.status = "success"
           /\ ret'.out.reservation_created
           /\ Len(allocations') = Len(allocations) + 1
           /\ new.fields["Asset Link"] = <<TheAsset(Strip(input.asset_name)).id>>
           /\ new.fields["Start Date"] = input.shoot_date
           /\ new.fields["Quantity Reserved"] = input.quantity
           /\ new.fields["Status"] = "Confirmed"

C15_ReservesWithoutLookingAtAvailability == [][C15_Step]_vars

\* day 1 had no camera left; a single reservation of 2 was made all the
\* same, and check_availability now reports 2 - 4 = -2 available
C15_Witness ==
    /\ ret.tool = "check_availability"
    /\ ret.input = [asset_name |-> Padded, shoot_date |-> 1]
    /\ ReservedOn(InitialAllocations, 1) = TheAsset(Strip(Padded)).fields["Total Quantity"]
    /\ Created(allocations) = {Len(allocations)}
    /\ allocations[Len(allocations)].fields["Start Date"] = 1
    /\ allocations[Len(allocations)].fields["Quantity Reserved"] = 2
    /\ AllCallsOk
    /\ ret.out.available = -2
    /\ ~ret.out.is_available

\* ------------------------------------------------------------------------
\* C16: the external calls of one create_reservation are, in this order, the
\* asset lookup, the allocation create and the Notion update, each at most
\* once; the create is issued only after the lookup returned a record and
\* the Notion update only after the create succeeded
\* ------------------------------------------------------------------------
ReservationCalls == <<"Assets.all", "Allocations.create", "pages.update">>

C16_LookupThenCreateThenUpdate ==
    ret.tool = "create_reservation" =>
        /\ Len(calls) \in 1..3
        /\ \A i \in 1..Len(calls) : calls[i].api = ReservationCalls[i]
        /\ Len(calls) >= 2 =>
              (calls[1].ok /\ Named(Strip(ret.input.asset_name)) # {})
        /\ Len(calls) >= 3 => calls[2].ok

\* an invocation that ran through: lookup, create, and a Notion update that
\* failed and was not tried again
C16_Witness ==
    /\ ret.tool = "create_reservation"
    /\ Len(calls) = 3
    /\ calls[1].api = "Assets.all" /\ calls[1].ok
    /\ calls[2].api = "Allocations.create" /\ calls[2].ok
    /\ calls[3].api = "pages.update" /\ ~calls[3].ok
    /\ ret.out.reservation_created

\* ------------------------------------------------------------------------
\* C17: a successful create_reservation of quantity q for asset A and date D
\* makes check_availability(A, D) report reserved_on_date larger by q and
\* available smaller by q than just before it, and leaves the result of
\* check_availability for every other asset and every other date as it was
\* ------------------------------------------------------------------------
C17_Step ==
    (ret'.tool = "create_reservation" /\ ret'.out.status = "success") =>
        LET input == ret'.input
            ok == AllOk({"assets", "allocations"})
        IN  \A query \in AvailabilityInputs :
                LET before == check_availability(assets, allocations, query, ok).out
                    after == check_availability(assets', allocations', query, ok).out
                IN  IF Strip(query.asset_name) = Strip(input.asset_name)
                          /\ query.shoot_date = input.shoot_date
                    THEN /\ after.asset_found
                         /\ after.reserved_on_date = before.reserved_on_date + input.quantity
                         /\ after.available = before.available - input.quantity
                         /\ after = [before EXCEPT
                                        !.reserved_on_date = @ + input.quantity,
                                        !.available = @ - input.quantity,
                                        !.is_available = (before.available > input.quantity)]
                    ELSE after = before

C17_ReservationShowsInTheNextCheck == [][C17_Step]_vars

\* 1 camera was reserved on day 2; after a reservation of 2 more, an actual
\* check_availability reports 3 reserved and -1 available, while day 1 still
\* has its 2 reserved
C17_Witness ==
    /\ ret.tool = "check_availability"
    /\ ret.input = [asset_name |-> Padded, shoot_date |-> 2]
    /\ AllCallsOk
    /\ Created(allocations) = {Len(allocations)}
    /\ allocations[Len(allocations)].fields["Start Date"] = 2
    /\ allocations[Len(allocations)].fields["Quantity Reserved"] = 2
    /\ ReservedOn(InitialAllocations, 2) = 1
    /\ ret.out.reserved_on_date = 3
    /\ ret.out.available = -1
    /\ ReservedOn(allocations, 1) = ReservedOn(InitialAllocations, 1)

\* ------------------------------------------------------------------------
\* C18: in the result of check_availability for a found asset is_available
\* is True exactly when available > 0, so False for 0 and for a negative
\* available; in a not-found result and in an error result it is False
\* ------------------------------------------------------------------------
C18_AvailableOnlyWithUnitsLeft ==
    ret.tool = "check_availability" =>
        IF ret.out.status = "success" /\ ret.out.asset_found
        THEN ret.out.is_available <=> (ret.out.available > 0)
        ELSE ~ret.out.is_available

\* the boundary: every camera of day 1 is reserved, available is exactly 0
\* and the asset is reported found but not available
C18_Witness ==
    /\ ret.tool = "check_availability"
    /\ ret.out.status = "success"
    /\ ret.out.asset_found
    /\ ret.out.total_owned > 0
    /\ ret.out.available = 0
    /\ ~ret.out.is_available

\* ------------------------------------------------------------------------
\* C19: the result of create_reservation agrees with the store:
\* reservation_created is True exactly when the invocation added an
\* allocation record, and allocation_id is set, to that record's id, exactly
\* then; when the create call fails the result has reservation_created
\* False, status "error", no allocation_id and total_cost 0, and the tables
\* and the schedule are as before
\* ------------------------------------------------------------------------
C19_Step ==
    ret'.tool = "create_reservation" =>
        LET out == ret'.out
        IN  /\ out.reservation_created <=> (allocations' # allocations)
            /\ out.reservation_created <=> (out.allocation_id # None)
            /\ out.reservation_created =>
                  /\ Len(allocations') = Len(allocations) + 1
                  /\ \A i \in 1..Len(allocations) : allocations'[i] = allocations[i]
                  /\ out.allocation_id = Some(allocations'[Len(allocations')].id)
            /\ (Len(calls') >= 2 /\ ~calls'[2].ok) =>
                  /\ ~out.reservation_created
                  /\ out.status = "error"
                  /\ out.allocation_id = None
                  /\ out.total_cost = 0
                  /\ UNCHANGED <<assets, allocations, pages>>

EstBudget(pgs, page_id) ==
    LET i == CHOOSE k \in 1..Len(pgs) : pgs[k].id = page_id
    IN  Get(pgs[i].properties, "Est. Budget", NumberProp(None))["number"]

C20_Step ==
    (ret'.tool = "create_reservation" /\ ret'.out.status = "success") =>
        LET input == ret'.input
            out == ret'.out
        IN  /\ out.daily_rate = Get(TheAsset(Strip(input.asset_name)).fields, "Daily Rate", 0)
            /\ out.total_cost = out.daily_rate * input.quantity
            /\ IF calls'[3].ok
               THEN /\ EstBudget(pages', input.scene_id) = Some(out.total_cost)
                    /\ \A i \in 1..Len(pages) :
                          pages[i].id # input.scene_id => pages'[i] = pages[i]
               ELSE pages' = pages

C20_BudgetIsTheLastCostWritten == [][C20_Step]_vars

\* scene p1 had no budget; a reservation of 2 cameras wrote 6, a second one
\* of 1 camera cost 3 and its update failed: the budget is 6, not 3 or 9
C20_Witness ==
    /\ ret.tool = "create_reservation"
    /\ ret.input.scene_id = "p1"
    /\ ret.out.status = "success"
    /\ ret.out.total_cost = 3
    /\ ~ret.out.scene_status_updated
    /\ Created(allocations) = {Len(allocations) - 1, Len(allocations)}
    /\ allocations[Len(allocations) - 1].fields["Quantity Reserved"] = 2
    /\ EstBudget(SchedulePages, "p1") = None
    /\ EstBudget(pages, "p1") = Some(6)

\* ------------------------------------------------------------------------
\* C21: when the service rejects the post with a Slack API error,
\* post_briefing returns posted False and send_approval_request sent False,
\* with status "error", the error code of the service as error, and no
\* message_ts and no channel; when the post succeeds they return posted or
\* sent True, status "success", no error, and the ts and the channel of the
\* service's response
\* ------------------------------------------------------------------------
C21_Step ==
    (/\ ret'.tool \in {"post_briefing", "send_approval_request"}
     /\ "status" \in DOMAIN ret'.out)
    => LET out == ret'.out
           done == IF ret'.tool = "post_briefing" THEN out.posted ELSE out.sent
           given == ret'.input.channel_id
           target == IF given # None /\ given.val # "" THEN given.val ELSE ConfiguredChannel
           stored == messages'[Len(messages')]
       IN  IF calls'[1].ok
           THEN /\ done
                /\ out.status = "success"
                /\ out.error = None
                /\ Len(messages') = Len(messages) + 1
                /\ out.message_ts = Some(stored.ts)
                /\ out.channel = Some(stored.channel)
           ELSE /\ ~done
                /\ out.status = "error"
                /\ out.error \in {Some("ratelimited"), Some("channel_not_found")}
                /\ ResolveChannel(target) # None => out.error = Some("ratelimited")
                /\ out.message_ts = None
                /\ out.channel = None

C21_SlackErrorAndSuccessOutputs == [][C21_Step]_vars

\* after a briefing that was posted, an approval request to a channel the
\* workspace does not know was rejected with channel_not_found
C21_Witness ==
    /\ ret.tool = "send_approval_request"
    /\ ret.input.channel_id = Some("C9")
    /\ ~calls[1].ok
    /\ "status" \in DOMAIN ret.out
    /\ ~ret.out.sent
    /\ ret.out.status = "error"
    /\ ret.out.error = Some("channel_not_found")
    /\ ret.out.message_ts = None
    /\ ret.out.channel = None
    /\ Len(messages) = 1
    /\ \E i \in 1..Len(messages[1].blocks) :
          /\ "text" \in DOMAIN messages[1].blocks[i]
          /\ messages[1].blocks[i].text = <<"Production Update">>

\* ------------------------------------------------------------------------
\* C22: get_schedule is all-or-nothing over the pages the query returned:
\* either every one of them became a scene, in the order returned, with ""
\* for a missing Script Breakdown, "Pending" for a missing or null Logistics
\* Status, "N/A" for a missing Scene Number and null for a missing
\* Est. Budget, and the status is "success"; or one of them has an empty
\* title list or a null date, and the status is "error" with no scene at
\* all, the well-formed pages included
\* ------------------------------------------------------------------------
\* the pages the query of this invocation returned
ReturnedPages == DataSourcesQuery(pages, today, today + ret.input.days_ahead, "ok").ans

CannotBeExtracted(page) ==
    \/ /\ "Scene Number" \in DOMAIN page.properties
       /\ page.properties["Scene Number"]["title"] = <<>>
    \/ /\ "Shoot Date" \in DOMAIN page.properties
       /\ page.properties["Shoot Date"]["date"] = None

C22_AllScenesOrNone ==
    (ret.tool = "get_schedule" /\ calls[1].ok) =>
        LET scenes == ret.out.scenes
        IN  IF \E i \in 1..Len(ReturnedPages) : CannotBeExtracted(ReturnedPages[i])
            THEN /\ ret.out.status = "error"
                 /\ ret.out.error # None
                 /\ scenes = <<>>
                 /\ ret.out.total_scenes = 0
            ELSE /\ ret.out.status = "success"
                 /\ Len(scenes) = Len(ReturnedPages)
                 /\ \A i \in 1..Len(scenes) :
                       LET props == ReturnedPages[i].properties
                       IN  /\ scenes[i].scene_id = ReturnedPages[i].id
                           /\ "Script Breakdown" \notin DOMAIN props
                                 => scenes[i].script_breakdown = <<>>
                           /\ ("Logistics Status" \notin DOMAIN props
                                 \/ props["Logistics Status"]["select"] = None)
                                 => scenes[i].logistics_status = "Pending"
                           /\ "Scene Number" \notin DOMAIN props
                                 => scenes[i].scene_number = "N/A"
                           /\ "Est. Budget" \notin DOMAIN props
                                 => scenes[i].est_budget = None

\* the query returned two pages that can be extracted and, last, one with an
\* empty title list: the result is an error without any scene
C22_Witness ==
    /\ ret.tool = "get_schedule"
    /\ calls[1].ok
    /\ Len(ReturnedPages) = 3
    /\ ~CannotBeExtracted(ReturnedPages[1])
    /\ ~CannotBeExtracted(ReturnedPages[2])
    /\ CannotBeExtracted(ReturnedPages[3])
    /\ ret.out.status = "error"
    /\ ret.out.error = Some(IndexError)
    /\ ret.out.scenes = <<>>

====
